---- MODULE Spec2Model ----
(***************************************************************************)
(* Model of the Companies House ingest pipeline:                           *)
(*   scripts/download_ch.py        locator + fetcher (get_current_snapshot *)
(*                                 _info, download_file, main)             *)
(*   scripts/prepare_hf_dataset.py loader, cleaner, shard writer           *)
(*   scripts/eda_ch.py             the same loader                         *)
(* Each script is a state machine of its own; the specifications           *)
(* SpecLocator, SpecDownload, SpecLoad, SpecClean and SpecShard each run   *)
(* one of them and leave the variables of the others at their idle values. *)
(***************************************************************************)
EXTENDS Integers, Sequences, FiniteSets, TLC

VARIABLES
    \* ---- download_ch.py ----
    index,          \* the upstream en_output.html: a sequence of link tokens
    cache,          \* data/raw/ch: the bytes of each file that exists in it
    pc,             \* position of main() / download_file()
    date_str,       \* first result of get_current_snapshot_info
    files,          \* second result of get_current_snapshot_info
    i,              \* 1-based position of the for loop of main() in files
    success_count,  \* main()'s success_count
    reported,       \* the count printed by "Downloaded {n}/{len} files", or None
    attempted,      \* filenames download_file was called with, in this run
    netCalls,       \* filename -> number of urlopen calls made for it so far (none: 0)
    hist,           \* filename -> outcomes of the finished download_file calls
    runs,           \* number of invocations of the script so far
    index_ok,       \* whether this run's fetch of the index page succeeded
    \* ---- prepare_hf_dataset.py / eda_ch.py: load_all_parts ----
    raw_dir,        \* the input directory: a set of files
    lpc,            \* position of load_all_parts
    todo,           \* what is left of sorted(raw_dir.glob("*.zip"))
    visited,        \* zip paths the loop has opened, in order
    frames,         \* the list frames
    loaded,         \* the returned DataFrame (its rows), or NotYet
    \* ---- prepare_hf_dataset.py: clean_dataframe ----
    df,             \* the input table
    max_name_len,
    min_date,
    today,          \* pd.Timestamp.today().normalize(), as a civil date
    cleaned,        \* the returned table, or NotYet
    \* ---- prepare_hf_dataset.py: shard_and_save ----
    dataset,        \* rows of Dataset.from_pandas(df)
    shard_size,
    start,          \* the loop variable of range(0, total, shard_size)
    saved,          \* shards written so far: sequence of [dir, rows, first, last]
    spc             \* position of shard_and_save

downloadVars == <<index, cache, pc, date_str, files, i, success_count, reported,
                  attempted, netCalls, hist, runs, index_ok>>
loadVars     == <<raw_dir, lpc, todo, visited, frames, loaded>>
cleanVars    == <<df, max_name_len, min_date, today, cleaned>>
shardVars    == <<dataset, shard_size, start, saved, spc>>
vars         == <<downloadVars, loadVars, cleanVars, shardVars>>
notDownload  == <<loadVars, cleanVars, shardVars>>
notLoad      == <<downloadVars, cleanVars, shardVars>>
notClean     == <<downloadVars, loadVars, shardVars>>
notShard     == <<downloadVars, loadVars, cleanVars>>

(***************************************************************************)
(* Bounds of the model.                                                    *)
(***************************************************************************)
MaxParts == 2      \* part numbers and declared totals of the index: 0..MaxParts
MaxLinks == 2      \* links of an index document explored by SpecLocator
MaxRuns  == 2      \* invocations of download_ch.py
BodyLen  == 2      \* bytes of an archive's response body
MaxZips  == 2      \* files of the loader's input directory
MaxRows  == 2      \* rows of a table given to clean_dataframe
MaxNameLen == 3    \* largest max_name_len tried
MaxTotal == 4      \* rows of a dataset given to shard_and_save
MaxShard == 3      \* largest shard_size tried

NotYet == [done |-> FALSE]

RECURSIVE Flatten(_)
Flatten(ss) == IF ss = <<>> THEN <<>> ELSE Head(ss) \o Flatten(Tail(ss))

SeqsUpTo(S, n) == UNION {[1..k -> S] : k \in 0..n}

(***************************************************************************)
(* download_ch.py                                                          *)
(***************************************************************************)
Dates == {"2024-06-01", "2024-07-01"}

\* The text of the total-parts group of a link: its decimal digits, as
\* published ("2") or zero-padded ("02").
TotalTexts == {<<t>> : t \in 0..MaxParts} \cup {<<0, t>> : t \in 0..MaxParts}

\* A link of the index page.  kind "part" is the text
\* BasicCompanyData-{date}-part{part}_{total}.zip; kind "onefile" is
\* BasicCompanyDataAsOneFile-{date}.zip, which the pattern does not match.
PartLink(d, p, t) == [kind |-> "part", date |-> d, part |-> p, total |-> t]
OneFileLink(d)    == [kind |-> "onefile", date |-> d, part |-> 0, total |-> <<>>]
Links == {PartLink(d, p, t) : d \in Dates, p \in 1..MaxParts, t \in TotalTexts}
             \cup {OneFileLink(d) : d \in Dates}

\* f"BasicCompanyData-{date_str}-part{part}_{total_parts}.zip"
Filename(d, p, t) == [date |-> d, part |-> p, total |-> t]

\* re.findall(pattern, content): the (date, part, total) groups of the
\* matching links, in document order.
IsMatch(l) == l.kind = "part"
FindAll(content) == SelectSeq(content, IsMatch)

\* int(text) of a digit string
RECURSIVE int(_)
int(digits) ==
    IF digits = <<>> THEN 0
    ELSE 10 * int(SubSeq(digits, 1, Len(digits) - 1)) + digits[Len(digits)]

\* range(1, total_parts), which stops one part short
PartRangeOffByOne(total_parts) == [k \in 1..(total_parts - 1) |-> k]
\* range(1, total_parts + 1)
PartRange(total_parts) == [k \in 1..total_parts |-> k]

\* get_current_snapshot_info(): fetched is FALSE when urlopen or read raises.
get_current_snapshot_info(fetched, content) ==
    IF ~fetched THEN [date |-> "None", files |-> <<>>]
    ELSE LET matches == FindAll(content) IN
         IF matches = <<>> THEN [date |-> "None", files |-> <<>>]
         ELSE LET d == matches[1].date
                  total_parts == int(matches[1].total)
                  parts == PartRange(total_parts)
              IN  [date  |-> d,
                   files |-> [k \in 1..Len(parts) |->
                                 Filename(d, parts[k], total_parts)]]

\* m with m[f] set to v, f added to its domain when new.
Put(m, f, v) == [x \in DOMAIN m \cup {f} |-> IF x = f THEN v ELSE m[x]]
HistOf(f)  == IF f \in DOMAIN hist THEN hist[f] ELSE <<>>
CallsOf(f) == IF f \in DOMAIN netCalls THEN netCalls[f] ELSE 0

\* The response body the server holds for a filename.
Body(f) == [k \in 1..BodyLen |-> f.part]

\* a download_file without the dest.exists() test
DestExistsNever(f) == FALSE
\* dest.exists()
DestExists(f) == f \in DOMAIN cache

Record(f, o) == Put(hist, f, Append(HistOf(f), o))

\* main(): get_current_snapshot_info and the "if not files: return".
GetSnapshot ==
    /\ pc = "start"
    /\ \E fetched \in BOOLEAN :
         LET r == get_current_snapshot_info(fetched, index) IN
         /\ index_ok' = fetched
         /\ date_str' = r.date
         /\ files' = r.files
         /\ IF r.files = <<>>
               THEN pc' = "done" /\ i' = 0
               ELSE pc' = "loop" /\ i' = 1
    /\ success_count' = 0
    /\ UNCHANGED <<notDownload, index, cache, reported, attempted, netCalls, hist, runs>>

\* download_file: dest.exists() -> "Skipping", return True.
DownloadSkip ==
    /\ pc = "loop" /\ i <= Len(files)
    /\ DestExists(files[i])
    /\ attempted' = Append(attempted, files[i])
    /\ hist' = Record(files[i], "hit")
    /\ success_count' = success_count + 1
    /\ i' = i + 1
    /\ UNCHANGED <<notDownload, index, index_ok, cache, pc, date_str, files, reported, netCalls, runs>>

\* download_file: urlopen raises HTTPError or URLError; open(dest) is never
\* reached; return False.
DownloadFail ==
    /\ pc = "loop" /\ i <= Len(files)
    /\ ~DestExists(files[i])
    /\ \E e \in {"http_error", "url_error"} : hist' = Record(files[i], e)
    /\ attempted' = Append(attempted, files[i])
    /\ netCalls' = Put(netCalls, files[i], CallsOf(files[i]) + 1)
    /\ i' = i + 1
    /\ UNCHANGED <<notDownload, index, index_ok, cache, pc, date_str, files, success_count, reported, runs>>

\* download_file: urlopen raises something else (RemoteDisconnected or
\* ConnectionResetError out of getresponse), or open(dest, "wb") raises
\* OSError: no file is created and no except clause takes the exception.
DownloadRaise ==
    /\ pc = "loop" /\ i <= Len(files)
    /\ ~DestExists(files[i])
    /\ attempted' = Append(attempted, files[i])
    /\ netCalls' = Put(netCalls, files[i], CallsOf(files[i]) + 1)
    /\ hist' = Record(files[i], "open_error")
    /\ pc' = "aborted"
    /\ UNCHANGED <<notDownload, index, index_ok, cache, date_str, files, i, success_count,
                   reported, runs>>

\* download_file: urlopen succeeds, then open(dest, "wb") creates the file.
DownloadOpen ==
    /\ pc = "loop" /\ i <= Len(files)
    /\ ~DestExists(files[i])
    /\ attempted' = Append(attempted, files[i])
    /\ netCalls' = Put(netCalls, files[i], CallsOf(files[i]) + 1)
    /\ cache' = Put(cache, files[i], <<>>)
    /\ pc' = "reading"
    /\ UNCHANGED <<notDownload, index, index_ok, date_str, files, i, success_count, reported, hist, runs>>

\* resp.read() returns the whole body.
ReadOk ==
    /\ pc = "reading"
    /\ pc' = "writing"
    /\ UNCHANGED <<notDownload, index, index_ok, cache, date_str, files, i, success_count, reported,
                   attempted, netCalls, hist, runs>>

\* resp.read() raises (IncompleteRead, ConnectionResetError, TimeoutError):
\* neither HTTPError nor URLError, so no except clause of download_file
\* takes it and it leaves main() as an unhandled exception.
ReadRaise ==
    /\ pc = "reading"
    /\ hist' = Record(files[i], "read_error")
    /\ pc' = "aborted"
    /\ UNCHANGED <<notDownload, index, index_ok, cache, date_str, files, i, success_count, reported,
                   attempted, netCalls, runs>>

\* f.write(data): one more byte reaches the file; with the last one the
\* with block closes, "Downloaded" is printed and True returned.
WriteChunk ==
    /\ pc = "writing"
    /\ LET f == files[i]
           n == Len(cache[f]) + 1
       IN  /\ cache' = Put(cache, f, SubSeq(Body(f), 1, n))
           /\ IF n = BodyLen
                 THEN /\ hist' = Record(f, "ok")
                      /\ success_count' = success_count + 1
                      /\ i' = i + 1
                      /\ pc' = "loop"
                 ELSE UNCHANGED <<hist, success_count, i, pc>>
    /\ UNCHANGED <<notDownload, index, index_ok, date_str, files, reported, attempted, netCalls, runs>>

\* f.write raises OSError (disk full): unhandled as well.
WriteRaise ==
    /\ pc = "writing"
    /\ hist' = Record(files[i], "write_error")
    /\ pc' = "aborted"
    /\ UNCHANGED <<notDownload, index, index_ok, cache, date_str, files, i, success_count, reported,
                   attempted, netCalls, runs>>

\* The process is killed in the middle of a download.
Kill ==
    /\ pc \in {"reading", "writing"}
    /\ hist' = Record(files[i], "killed")
    /\ pc' = "killed"
    /\ UNCHANGED <<notDownload, index, index_ok, cache, date_str, files, i, success_count, reported,
                   attempted, netCalls, runs>>

\* main(): the loop is over; print the count.
Finish ==
    /\ pc = "loop" /\ i > Len(files)
    /\ reported' = success_count
    /\ pc' = "done"
    /\ UNCHANGED <<notDownload, index, index_ok, cache, date_str, files, i, success_count, attempted,
                   netCalls, hist, runs>>

\* The script is invoked again on the same cache directory.
NewRun ==
    /\ pc \in {"done", "aborted", "killed"}
    /\ runs < MaxRuns
    /\ runs' = runs + 1
    /\ pc' = "start"
    /\ date_str' = "None" /\ files' = <<>> /\ i' = 0
    /\ success_count' = 0 /\ reported' = -1 /\ attempted' = <<>>
    /\ index_ok' = FALSE
    /\ UNCHANGED <<notDownload, index, cache, netCalls, hist>>

IdleDownload ==
    /\ index = <<>>
    /\ cache = <<>>
    /\ pc = "idle"
    /\ date_str = "None" /\ files = <<>> /\ i = 0
    /\ success_count = 0 /\ reported = -1 /\ attempted = <<>>
    /\ netCalls = <<>>
    /\ hist = <<>>
    /\ runs = 0
    /\ index_ok = FALSE

StartDownload(indexes) ==
    /\ index \in indexes
    /\ cache = <<>>
    /\ pc = "start"
    /\ date_str = "None" /\ files = <<>> /\ i = 0
    /\ success_count = 0 /\ reported = -1 /\ attempted = <<>>
    /\ netCalls = <<>>
    /\ hist = <<>>
    /\ runs = 1
    /\ index_ok = FALSE

IdleLoad ==
    /\ raw_dir = {} /\ lpc = "idle" /\ todo = <<>> /\ visited = <<>> /\ frames = <<>>
    /\ loaded = NotYet

IdleClean ==
    /\ df = NotYet /\ max_name_len = 0 /\ min_date = <<>> /\ today = <<>>
    /\ cleaned = NotYet

IdleShard ==
    /\ dataset = <<>> /\ shard_size = 1 /\ start = 0 /\ saved = <<>>
    /\ spc = "idle"

(***************************************************************************)
(* prepare_hf_dataset.py / eda_ch.py: load_all_parts                       *)
(***************************************************************************)
\* File and member names are texts: sequences of code points.
DotZip == <<46, 122, 105, 112>>          \* ".zip"
DotCsv == <<46, 99, 115, 118>>           \* ".csv"
DotCsvUpper == <<46, 67, 83, 86>>        \* ".CSV"
DotTxt == <<46, 116, 120, 116>>          \* ".txt"

\* str.endswith / the fnmatch of "*" + suffix
EndsWith(name, suffix) ==
    /\ Len(name) >= Len(suffix)
    /\ SubSeq(name, Len(name) - Len(suffix) + 1, Len(name)) = suffix

\* str.__lt__: the order sorted() uses on paths of one directory.
RECURSIVE LexLess(_, _)
LexLess(a, b) ==
    IF a = <<>> THEN b # <<>>
    ELSE IF b = <<>> THEN FALSE
    ELSE IF Head(a) < Head(b) THEN TRUE
    ELSE IF Head(a) > Head(b) THEN FALSE
    ELSE LexLess(Tail(a), Tail(b))

\* The names of the directory's files: "1-", "1", "10", "2" + ".zip", and "1.txt".
ZipStems == {<<49, 45>>, <<49>>, <<49, 48>>, <<50>>}
DirNames == {st \o DotZip : st \in ZipStems} \cup {<<49>> \o DotTxt}

\* The member listings (zf.namelist()) of the archives tried.
CsvA == <<97>> \o DotCsv
CsvB == <<98>> \o DotCsv
CsvUpper == <<97>> \o DotCsvUpper
Readme == <<114>> \o DotTxt
Listings == {<<>>, <<Readme>>, <<CsvA>>, <<Readme, CsvA>>, <<CsvB, CsvA>>, <<CsvUpper>>}

\* The rows pd.read_csv gives for member m of archive name: two rows, each
\* tagged with where it came from.
Payload(name, m) == <<[file |-> name, member |-> m, row |-> 1],
                      [file |-> name, member |-> m, row |-> 2]>>

\* A file of the directory.
DirFile(name, listing) == [name |-> name, namelist |-> listing]
Directory(names, listing) ==
    {DirFile(n, IF EndsWith(n, DotZip) THEN listing[n] ELSE <<>>) : n \in names}

\* raw_dir.glob("*.zip")
Glob(dir) == {x \in dir : EndsWith(x.name, DotZip)}

\* sorted(..., reverse=True)
RECURSIVE SortedDescending(_)
SortedDescending(S) ==
    IF S = {} THEN <<>>
    ELSE LET x == CHOOSE x \in S : \A y \in S \ {x} : LexLess(y.name, x.name)
         IN  <<x>> \o SortedDescending(S \ {x})
\* sorted(...)
RECURSIVE Sorted(_)
Sorted(S) ==
    IF S = {} THEN <<>>
    ELSE LET x == CHOOSE x \in S : \A y \in S \ {x} : LexLess(x.name, y.name)
         IN  <<x>> \o Sorted(S \ {x})

\* csv_names = [n for n in zf.namelist() if n.endswith(".csv")]
IsCsvName(n) == EndsWith(n, DotCsv)
CsvNames(zf) == SelectSeq(zf.namelist, IsCsvName)

\* for zip_path in sorted(raw_dir.glob("*.zip")): the iterator is built.
LoadGlob ==
    /\ lpc = "start"
    /\ todo' = Sorted(Glob(raw_dir))
    /\ lpc' = "loop"
    /\ UNCHANGED <<notLoad, raw_dir, visited, frames, loaded>>

\* One iteration of the loop: an archive without a ".csv" member is skipped.
LoadSkip ==
    /\ lpc = "loop" /\ todo # <<>>
    /\ CsvNames(Head(todo)) = <<>>
    /\ visited' = Append(visited, Head(todo).name)
    /\ todo' = Tail(todo)
    /\ UNCHANGED <<notLoad, raw_dir, lpc, frames, loaded>>

\* One iteration of the loop: frames.append(pd.read_csv(zf.open(csv_names[0]))).
LoadRead ==
    /\ lpc = "loop" /\ todo # <<>>
    /\ CsvNames(Head(todo)) # <<>>
    /\ frames' = Append(frames, Payload(Head(todo).name, CsvNames(Head(todo))[1]))
    /\ visited' = Append(visited, Head(todo).name)
    /\ todo' = Tail(todo)
    /\ UNCHANGED <<notLoad, raw_dir, lpc, loaded>>

\* if frames: return pd.concat(frames, ignore_index=True); return pd.DataFrame()
LoadReturn ==
    /\ lpc = "loop" /\ todo = <<>>
    /\ loaded' = [done |-> TRUE,
                  rows |-> IF frames # <<>> THEN Flatten(frames) ELSE <<>>]
    /\ lpc' = "done"
    /\ UNCHANGED <<notLoad, raw_dir, todo, visited, frames>>

InitLoad ==
    /\ \E names \in SUBSET DirNames :
           /\ Cardinality(names) <= MaxZips
           /\ \E listing \in [names -> Listings] : raw_dir = Directory(names, listing)
    /\ lpc = "start" /\ todo = <<>> /\ visited = <<>> /\ frames = <<>>
    /\ loaded = NotYet
    /\ IdleDownload /\ IdleClean /\ IdleShard
NextLoad == LoadGlob \/ LoadSkip \/ LoadRead \/ LoadReturn
SpecLoad == InitLoad /\ [][NextLoad]_vars

(***************************************************************************)
(* prepare_hf_dataset.py: shard_and_save                                   *)
(***************************************************************************)
Min(a, b) == IF a <= b THEN a ELSE b

\* end = min(start + shard_size, total) - 1, the end taken as inclusive
ShardEndInclusive(st, size, total) == Min(st + size, total) - 1
\* end = min(start + shard_size, total)
ShardEnd(st, size, total) == Min(st + size, total)

\* dataset.select(range(start, end))
Select(ds, st, end) == [k \in 1..(end - st) |-> ds[st + k]]

\* One iteration of for start in range(0, total, shard_size): the shard is
\* saved under part_{start // shard_size:05d}.
SaveShard ==
    /\ spc = "loop" /\ start < Len(dataset)
    /\ LET end == ShardEnd(start, shard_size, Len(dataset)) IN
       saved' = Append(saved, [dir   |-> start \div shard_size,
                               rows  |-> Select(dataset, start, end),
                               first |-> start,
                               last  |-> end - 1])
    /\ start' = start + shard_size
    /\ UNCHANGED <<notShard, dataset, shard_size, spc>>

\* The range is exhausted.
ShardReturn ==
    /\ spc = "loop" /\ start >= Len(dataset)
    /\ spc' = "done"
    /\ UNCHANGED <<notShard, dataset, shard_size, start, saved>>

ShardRows == {"r", "s"}

InitShard ==
    /\ dataset \in SeqsUpTo(ShardRows, MaxTotal)
    /\ shard_size \in 1..MaxShard
    /\ start = 0 /\ saved = <<>> /\ spc = "loop"
    /\ IdleDownload /\ IdleLoad /\ IdleClean
NextShard == SaveShard \/ ShardReturn
SpecShard == InitShard /\ [][NextShard]_vars

(***************************************************************************)
(* prepare_hf_dataset.py: clean_dataframe                                  *)
(***************************************************************************)
\* A cell of a table read with dtype=str: a text (a sequence of code
\* points; a date text "YYYY-MM-DD" is kept as its three numbers) or NaN.
NA     == [kind |-> "NA", text |-> <<>>]
Str(t) == [kind |-> "str", text |-> t]

IsLeap(y) == (y % 4 = 0 /\ y % 100 # 0) \/ y % 400 = 0
DaysInMonth(y, m) ==
    IF m = 2 THEN (IF IsLeap(y) THEN 29 ELSE 28)
    ELSE IF m \in {4, 6, 9, 11} THEN 30 ELSE 31

\* Whether a text is a date pd.to_datetime can hold in a Timestamp.
IsCivilDate(t) ==
    /\ Len(t) = 3
    /\ t[1] \in 1678..2261
    /\ t[2] \in 1..12
    /\ t[3] \in 1..DaysInMonth(t[1], t[2])

\* A Timestamp at midnight is the number of its day (days since 1970-01-01).
NaT == [nat |-> TRUE, day |-> 0]
Timestamp(n) == [nat |-> FALSE, day |-> n]

DaysFromCivil(y, m, d) ==
    LET yy  == IF m <= 2 THEN y - 1 ELSE y
        era == yy \div 400
        yoe == yy - era * 400
        mp  == IF m > 2 THEN m - 3 ELSE m + 9
        doy == (153 * mp + 2) \div 5 + d - 1
        doe == yoe * 365 + yoe \div 4 - yoe \div 100 + doy
    IN  era * 146097 + doe - 719468

CivilFromDays(n) ==
    LET z   == n + 719468
        era == z \div 146097
        doe == z - era * 146097
        yoe == (doe - doe \div 1460 + doe \div 36524 - doe \div 146096) \div 365
        doy == doe - (365 * yoe + yoe \div 4 - yoe \div 100)
        mp  == (5 * doy + 2) \div 153
        d   == doy - (153 * mp + 2) \div 5 + 1
        m   == IF mp < 10 THEN mp + 3 ELSE mp - 9
        y   == yoe + era * 400 + (IF m <= 2 THEN 1 ELSE 0)
    IN  <<y, m, d>>

\* pd.to_datetime(value, errors="coerce") / pd.Timestamp(text)
to_datetime(v) ==
    IF v.kind = "str" /\ IsCivilDate(v.text)
        THEN Timestamp(DaysFromCivil(v.text[1], v.text[2], v.text[3]))
        ELSE NaT

\* ts.strftime("%Y-%m-%d"); NaN for NaT
strftime(ts) == IF ts.nat THEN NA ELSE Str(CivilFromDays(ts.day))

\* Comparisons of Timestamps: False when either side is NaT.
TsGe(a, b) == ~a.nat /\ ~b.nat /\ a.day >= b.day
TsLe(a, b) == ~a.nat /\ ~b.nat /\ a.day <= b.day

\* mask = dates >= pd.Timestamp(min_date), without the test against today
DateMaskNoUpper(date, mind, tod) == TsGe(date, to_datetime(Str(mind)))
\* mask = (dates >= pd.Timestamp(min_date)) & (dates <= today)
DateMask(date, mind, tod) ==
    TsGe(date, to_datetime(Str(mind))) /\ TsLe(date, to_datetime(Str(tod)))

\* Series.astype(str) on an object column: str(NaN) is "nan".
astype_str(v) == IF v.kind = "NA" THEN Str(<<110, 97, 110>>) ELSE v

\* names.str.len().between(1, max_name_len)
NameMask(name, mnl) == Len(name.text) >= 1 /\ Len(name.text) <= mnl

\* f with f[c] set to v, c added to its domain when new.
SetField(f, c, v) ==
    [x \in DOMAIN f \cup {c} |-> IF x = c THEN v ELSE f[x]]

SourceTag == Str(<<99, 104>>)            \* "ch"

clean_dataframe(t, mnl, mind, tod) ==
    LET dated ==
            IF "IncorporationDate" \in t.columns
            THEN LET Keep(r) == DateMask(to_datetime(r["IncorporationDate"]), mind, tod)
                     kept    == SelectSeq(t.rows, Keep)
                 IN  [k \in 1..Len(kept) |->
                         SetField(kept[k], "date",
                                  strftime(to_datetime(kept[k]["IncorporationDate"])))]
            ELSE [k \in 1..Len(t.rows) |-> SetField(t.rows[k], "date", NA)]
        named ==
            IF "CompanyName" \in t.columns
            THEN LET Keep(r) == NameMask(astype_str(r["CompanyName"]), mnl)
                     kept    == SelectSeq(dated, Keep)
                 IN  [k \in 1..Len(kept) |->
                         SetField(kept[k], "CompanyName",
                                  astype_str(kept[k]["CompanyName"]))]
            ELSE dated
    IN  [done    |-> TRUE,
         columns |-> t.columns \cup {"date", "source"},
         rows    |-> [k \in 1..Len(named) |-> SetField(named[k], "source", SourceTag)]]

\* clean_dataframe(df, max_name_len=..., min_date=...)
Clean ==
    /\ ~cleaned.done
    /\ df.done
    /\ cleaned' = clean_dataframe(df, max_name_len, min_date, today)
    /\ UNCHANGED <<notClean, df, max_name_len, min_date, today>>

\* The inputs tried.
RECURSIVE Repeat(_, _)
Repeat(c, n) == IF n = 0 THEN <<>> ELSE <<c>> \o Repeat(c, n - 1)

Today    == <<2024, 2, 29>>
Tomorrow == <<2024, 3, 1>>
MinDates == {<<1900, 1, 1>>, <<2024, 2, 29>>}
DateCells == {NA, Str(<<7>>), Str(<<2023, 2, 29>>), Str(<<1899, 12, 31>>),
              Str(<<1900, 1, 1>>), Str(Today), Str(Tomorrow)}
NameCells == {NA} \cup {Str(Repeat(65, n)) : n \in 0..(MaxNameLen + 1)}
ColumnSets == {{"CompanyNumber"} \cup o : o \in SUBSET {"CompanyName", "IncorporationDate"}}

\* The cells of a row of a table with columns cols, but for its company
\* number.
RowCells(cols) ==
    {[c \in cols \ {"CompanyNumber"} |-> IF c = "CompanyName" THEN nm ELSE dt] :
        nm \in (IF "CompanyName" \in cols THEN NameCells ELSE {NA}),
        dt \in (IF "IncorporationDate" \in cols THEN DateCells ELSE {NA})}

\* Row k of a table carries its position as its company number.
Table(cols, cells) ==
    [done    |-> TRUE,
     columns |-> cols,
     rows    |-> [k \in 1..Len(cells) |->
                     SetField(cells[k], "CompanyNumber", Str(<<48 + k>>))]]

InitClean ==
    /\ \E cols \in ColumnSets, n \in 0..MaxRows :
           \E cells \in [1..n -> RowCells(cols)] : df = Table(cols, cells)
    /\ max_name_len \in {MaxNameLen - 1, MaxNameLen}
    /\ min_date \in MinDates
    /\ today = Today
    /\ cleaned = NotYet
    /\ IdleDownload /\ IdleLoad /\ IdleShard
NextClean == Clean
SpecClean == InitClean /\ [][NextClean]_vars

\* The index page as published: the one-file link and parts 1..n of n.
PublishedIndex(d, n) ==
    <<OneFileLink(d)>> \o [k \in 1..n |-> PartLink(d, k, <<n>>)]

\* SpecLocator: get_current_snapshot_info on any index document.
InitLocator ==
    /\ StartDownload(SeqsUpTo(Links, MaxLinks))
    /\ IdleLoad /\ IdleClean /\ IdleShard
NextLocator == GetSnapshot
SpecLocator == InitLocator /\ [][NextLocator]_vars

\* SpecDownload: runs of download_ch.py against a published index.
InitDownload ==
    /\ StartDownload({PublishedIndex("2024-06-01", n) : n \in 0..MaxParts})
    /\ IdleLoad /\ IdleClean /\ IdleShard
NextDownload ==
    \/ GetSnapshot
    \/ DownloadSkip
    \/ DownloadFail
    \/ DownloadRaise
    \/ DownloadOpen
    \/ ReadOk
    \/ ReadRaise
    \/ WriteChunk
    \/ WriteRaise
    \/ Kill
    \/ Finish
    \/ NewRun
SpecDownload == InitDownload /\ [][NextDownload]_vars

(***************************************************************************)
(* Properties of download_ch.py                                            *)
(***************************************************************************)
Last(s) == s[Len(s)]
Downloading(f) == pc \in {"reading", "writing"} /\ files[i] = f
Failures == {"http_error", "url_error", "open_error", "read_error", "write_error"}
PartLinksOf(content) == {k \in 1..Len(content) : content[k].kind = "part"}

\* The index references part files, all of them for date D with total N.
References(content, D, N) ==
    /\ PartLinksOf(content) # {}
    /\ \A k \in PartLinksOf(content) :
           /\ content[k].date = D
           /\ content[k].total \in {<<N>>, <<0, N>>}

\* C9: once get_current_snapshot_info has returned, an index that was fetched
\* and references part files of date D with declared total N gave exactly the
\* N filenames of parts 1..N of N for D, in ascending part order; an index
\* that could not be fetched, or that holds no matching link, gave the empty
\* sequence.
C9_LocatorParts ==
    pc \in {"loop", "done"} =>
        /\ \A D \in Dates, N \in 0..MaxParts :
               (index_ok /\ References(index, D, N)) =>
                   /\ Len(files) = N
                   /\ \A k \in 1..N : files[k] = [date |-> D, part |-> k, total |-> N]
        /\ (~index_ok \/ PartLinksOf(index) = {}) => files = <<>>

\* C9 witness: the index holds a single link, of a part of 2, and two
\* filenames were returned.
C9_Witness ==
    /\ pc = "loop" /\ index_ok
    /\ Cardinality(PartLinksOf(index)) = 1
    /\ Len(files) = 2
    /\ files[1].part = 1 /\ files[2].part = 2

\* C2 (as claimed): after download_file ended in a failure for a file that
\* was not cached, no file exists at the destination.
C2_NoFileAfterFailure ==
    \A f \in DOMAIN hist :
        (Last(hist[f]) \in Failures /\ ~Downloading(f)) => f \notin DOMAIN cache

\* C3 (as claimed): a file that download_file skipped as already cached
\* holds the complete response body.
C3_CachedIsComplete ==
    \A f \in DOMAIN hist :
        Last(hist[f]) = "hit" => (f \in DOMAIN cache /\ cache[f] = Body(f))

Successes ==
    Cardinality({k \in 1..Len(files) :
                    /\ files[k] \in DOMAIN hist
                    /\ Last(hist[files[k]]) \in {"ok", "hit"}})

\* What does hold of the batch: a run that reaches the end of main() has
\* tried every file in order and prints the number of successes.
BatchCountWhenDone ==
    (pc = "done" /\ files # <<>>) => (attempted = files /\ reported = Successes)

\* C4 (as claimed): no fetch failure aborts the run; it ends normally with
\* download_file tried for every file in order and the successes counted.
C4_BatchNeverAborts ==
    /\ pc # "aborted"
    /\ BatchCountWhenDone

\* Outcomes with which download_file returns to its caller.
Returned == {"hit", "ok", "http_error", "url_error"}

\* C5 (as claimed): two invocations of download_file for one filename, both
\* of which returned, made exactly one network call, the second being a
\* cache hit.
C5_TwoCallsOneRequest ==
    \A f \in DOMAIN hist :
        (Len(hist[f]) = 2 /\ hist[f][1] \in Returned /\ hist[f][2] \in Returned)
            => (CallsOf(f) = 1 /\ hist[f][2] = "hit")

\* A step in which download_file is called for f.
Called(f) ==
    /\ Len(attempted') = Len(attempted) + 1
    /\ attempted'[Len(attempted')] = f

\* download_file called with the file present: success at once, no request,
\* the cache untouched.
C5_HitStep ==
    \A f \in DOMAIN cache :
        Called(f) =>
            /\ netCalls' = netCalls
            /\ cache' = cache
            /\ success_count' = success_count + 1
            /\ pc' = "loop"
            /\ Last(hist'[f]) = "hit"

\* After an invocation that succeeded, every later one is a hit, and an
\* invocation that downloaded the file is the only request ever made if
\* it was the first.
C5_AfterSuccess ==
    \A f \in DOMAIN hist :
        /\ \A k \in 1..(Len(hist[f]) - 1) :
               hist[f][k] \in {"ok", "hit"} => hist[f][k + 1] = "hit"
        /\ hist[f][1] = "ok" => netCalls[f] = 1

\* C5 (amended): a call that finds the file present returns success without
\* a request and without touching the file, so an invocation that follows a
\* successful one is a pure cache hit and the two make one network call.
C5_CacheHit == [][C5_HitStep]_vars /\ []C5_AfterSuccess

\* C5 witness: a file downloaded by the first invocation and skipped by the
\* second, with one request made.
C5_Witness ==
    \E f \in DOMAIN hist :
        /\ hist[f] = <<"ok", "hit">>
        /\ netCalls[f] = 1
        /\ cache[f] = Body(f)

(***************************************************************************)
(* Properties of load_all_parts                                            *)
(***************************************************************************)
\* a < b in lexicographic order, stated position by position.
NameBefore(a, b) ==
    \E p \in 1..(Len(b)) :
        /\ \A q \in 1..(p - 1) : q <= Len(a) /\ a[q] = b[q]
        /\ p - 1 <= Len(a)
        /\ (p > Len(a) \/ a[p] < b[p])

ArchiveNamed(n) == CHOOSE x \in raw_dir : x.name = n

\* The table of an archive: the rows of its first ".csv" member in listing
\* order, none when it has no such member.
TableOf(x) ==
    LET at == {k \in 1..Len(x.namelist) : EndsWith(x.namelist[k], DotCsv)} IN
    IF at = {} THEN <<>>
    ELSE Payload(x.name, x.namelist[CHOOSE k \in at : \A j \in at : k <= j])

\* C10: load_all_parts returns the tables of the directory's .zip archives
\* concatenated in ascending lexicographic filename order, rows in archive
\* order; an archive without a .csv member adds no rows; with no archive, or
\* none with a payload, the result is the empty table.
C10_LoadConcatenates ==
    lpc = "done" =>
        /\ {visited[k] : k \in 1..Len(visited)} =
               {x.name : x \in {y \in raw_dir : EndsWith(y.name, DotZip)}}
        /\ \A j, k \in 1..Len(visited) : j < k => NameBefore(visited[j], visited[k])
        /\ loaded.done
        /\ loaded.rows = Flatten([k \in 1..Len(visited) |-> TableOf(ArchiveNamed(visited[k]))])
        /\ (\A x \in raw_dir : ~EndsWith(x.name, DotZip) \/ TableOf(x) = <<>>)
               => loaded.rows = <<>>

\* C10 witness: "10.zip" was read before "2.zip", one of the two has no .csv
\* member, and the other's rows are the result.
C10_Witness ==
    /\ lpc = "done"
    /\ visited = << <<49, 48>> \o DotZip, <<50>> \o DotZip >>
    /\ \E x \in raw_dir : EndsWith(x.name, DotZip) /\ TableOf(x) = <<>>
    /\ Len(loaded.rows) = 2

(***************************************************************************)
(* Properties of shard_and_save                                            *)
(***************************************************************************)
CeilDiv(a, b) == (a + b - 1) \div b

\* C1: shard_and_save writes ceil(R / S) shards with indices 0..ceil(R/S)-1,
\* each of S rows but the last, which has R mod S rows (S when that is 0);
\* the shards concatenated in index order are the table.
C1_ShardPartition ==
    spc = "done" =>
        LET R == Len(dataset)
            S == shard_size
            n == Len(saved)
        IN  /\ n = CeilDiv(R, S)
            /\ \A k \in 1..n : saved[k].dir = k - 1
            /\ \A k \in 1..(n - 1) : Len(saved[k].rows) = S
            /\ n > 0 => Len(saved[n].rows) = (IF R % S = 0 THEN S ELSE R % S)
            /\ Flatten([k \in 1..n |-> saved[k].rows]) = dataset

\* C1 witness: a table whose size is no multiple of the shard size, saved as
\* full shards and a shorter last one.
C1_Witness ==
    /\ spc = "done"
    /\ Len(dataset) = 4 /\ shard_size = 3
    /\ Len(saved) = 2 /\ Len(saved[2].rows) = 1

(***************************************************************************)
(* Properties of clean_dataframe                                           *)
(***************************************************************************)
\* Civil date a is earlier than civil date b.
CivilBefore(a, b) ==
    \/ a[1] < b[1]
    \/ a[1] = b[1] /\ a[2] < b[2]
    \/ a[1] = b[1] /\ a[2] = b[2] /\ a[3] < b[3]

HasDates == "IncorporationDate" \in df.columns
HasNames == "CompanyName" \in df.columns

\* The input row an output row comes from, by its company number.
InputOf(r) ==
    df.rows[CHOOSE j \in 1..Len(df.rows) :
                df.rows[j]["CompanyNumber"] = r["CompanyNumber"]]
KeptRow(j) ==
    \E k \in 1..Len(cleaned.rows) :
        cleaned.rows[k]["CompanyNumber"] = df.rows[j]["CompanyNumber"]

\* The date criterion: present, a date, not before min_date, not after today.
DateValid(v) ==
    /\ v.kind = "str"
    /\ IsCivilDate(v.text)
    /\ ~CivilBefore(v.text, min_date)
    /\ ~CivilBefore(today, v.text)

\* The name criterion: a text of 1..max_name_len characters.
NameValid(v) ==
    /\ v.kind = "str"
    /\ Len(v.text) \in 1..max_name_len

\* C6: with an IncorporationDate column, every output record's date is
\* present, parses, is not before min_date nor after the processing date, and
\* its derived date is that date as YYYY-MM-DD; without the column no record
\* is dropped on date grounds (only for its name) and every derived date is
\* absent.
C6_DateCriterion ==
    cleaned.done =>
        IF HasDates
        THEN \A k \in 1..Len(cleaned.rows) :
                 LET v == InputOf(cleaned.rows[k])["IncorporationDate"] IN
                 /\ DateValid(v)
                 /\ ~to_datetime(v).nat
                 /\ cleaned.rows[k]["date"] = Str(v.text)
        ELSE /\ \A k \in 1..Len(cleaned.rows) : cleaned.rows[k]["date"] = NA
             /\ \A j \in 1..Len(df.rows) :
                    ~KeptRow(j) => (HasNames /\ ~NameValid(df.rows[j]["CompanyName"]))

\* C6 witness: of a record dated today and one dated tomorrow, the first
\* alone is in the output, with today as its derived date.
C6_Witness ==
    /\ cleaned.done /\ HasDates /\ ~HasNames
    /\ Len(df.rows) = 2
    /\ df.rows[1]["IncorporationDate"] = Str(Tomorrow)
    /\ df.rows[2]["IncorporationDate"] = Str(Today)
    /\ Len(cleaned.rows) = 1
    /\ cleaned.rows[1]["date"] = Str(Today)

\* C7 (as claimed): a record is in the output exactly if it passes the date
\* criterion and the name criterion (a name of 1..max_name_len characters)
\* that the table's columns make applicable.
C7_KeptIffBothCriteria ==
    cleaned.done =>
        \A j \in 1..Len(df.rows) :
            KeptRow(j) <=>
                /\ HasDates => DateValid(df.rows[j]["IncorporationDate"])
                /\ HasNames => NameValid(df.rows[j]["CompanyName"])

\* What does hold of the name criterion: the claim, for records whose name
\* is present.
KeptIffBothCriteriaWhenNamed ==
    cleaned.done =>
        \A j \in 1..Len(df.rows) :
            (HasNames => df.rows[j]["CompanyName"] # NA) =>
                (KeptRow(j) <=>
                    /\ HasDates => DateValid(df.rows[j]["IncorporationDate"])
                    /\ HasNames => NameValid(df.rows[j]["CompanyName"]))

\* C8 (as claimed): the output is an order-preserving subsequence of the
\* input rows, each with every input field at its input value, absent values
\* included, and the two derived fields added.
C8_FieldsPreserved ==
    cleaned.done =>
        /\ Len(cleaned.rows) <= Len(df.rows)
        /\ \E f \in [1..Len(cleaned.rows) -> 1..Len(df.rows)] :
               /\ \A j, k \in 1..Len(cleaned.rows) : j < k => f[j] < f[k]
               /\ \A k \in 1..Len(cleaned.rows) :
                      /\ DOMAIN cleaned.rows[k] = df.columns \cup {"date", "source"}
                      /\ \A c \in df.columns : cleaned.rows[k][c] = df.rows[f[k]][c]
                      /\ cleaned.rows[k]["source"] = Str(<<99, 104>>)

====
